---- MODULE Spec2Model ----
(***************************************************************************)
(* Model of src/app.py, the TB Excel processing script.  One run of the    *)
(* script with a file uploaded is a processing pass: the workbook is       *)
(* loaded, its sheets are classified against two static name lists, the    *)
(* row-style and column-style sheets are cleaned and summarised, and up to *)
(* three workbooks are written and offered as downloads.  The log lives in *)
(* the session state and survives reruns of the script.                    *)
(*                                                                         *)
(* Text (sheet names, column labels, text cells) is a sequence of          *)
(* one-character strings, so that strip() and lower() are computed.        *)
(***************************************************************************)
EXTENDS Integers, Sequences, FiniteSets, TLC

\* ------------------------------------------------------------------ bounds
\* Most sheets in an uploaded workbook.
MaxSheets == 3
\* Most processing passes (script runs with a file uploaded) in one session.
MaxPasses == 2

\* ------------------------------------------------------- static name lists
column_style_sheets ==
  << <<"K", "u", "t", "k", "a", "i">>,
     <<"K", "u", "n", "l", "o", "n", "g">>,
     <<"M", "u", "s", "e">>,
     <<"N", "a", "m", "h", "k", "a", "n">>,
     <<"N", "a", "m", "h", "s", "a", "n">>,
     <<"N", "a", "m", "t", "u">>,
     <<"H", "s", "e", "n", "i">>,
     <<"L", "a", "s", "h", "i", "o">>,
     <<"L", "a", "u", "k", "k", "a", "i", "n", "g">> >>

row_style_sheets ==
  << <<"K", "y", "a", "u", "k", "t", "a", "w">>,
     <<"M", "y", "e", "b", "o", "n">>,
     <<"M", "i", "n", "b", "y", "a">>,
     <<"M", "r", "a", "u", "k", "-", "U">>,
     <<"B", "u", "t", "h", "i", "d", "a", "u", "n", "g">>,
     <<"R", "a", "t", "h", "e", "d", "a", "u", "n", "g">>,
     <<"M", "a", "u", "n", "g", "d", "a", "w">>,
     <<"P", "a", "l", "e", "t", "w", "a">> >>

SUMMARY == <<"S", "u", "m", "m", "a", "r", "y">>
TOWNSHIP == <<"T", "O", "W", "N", "S", "H", "I", "P">>
SOURCE_SHEET == <<"S", "O", "U", "R", "C", "E", "_", "S", "H", "E", "E", "T">>
REGISTRATION == <<"r", "e", "g", "i", "s", "t", "r", "a", "t", "i", "o", "n">>
VISIT == <<"v", "i", "s", "i", "t">>

ROW_FILE_NAME == "Row_Style_Sheets.xlsx"
COLUMN_FILE_NAME == "Summary_and_Column_Sheets.xlsx"
FINAL_FILE_NAME == "Final_Restructured_Data.xlsx"

\* ------------------------------------------------------------ text helpers
Range(s) == {s[i] : i \in DOMAIN s}

UpperChars ==
  <<"A", "B", "C", "D", "E", "F", "G", "H", "I", "J", "K", "L", "M",
    "N", "O", "P", "Q", "R", "S", "T", "U", "V", "W", "X", "Y", "Z">>

LowerChars ==
  <<"a", "b", "c", "d", "e", "f", "g", "h", "i", "j", "k", "l", "m",
    "n", "o", "p", "q", "r", "s", "t", "u", "v", "w", "x", "y", "z">>

LowerChar(c) ==
  IF \E i \in DOMAIN UpperChars : UpperChars[i] = c
    THEN LowerChars[CHOOSE i \in DOMAIN UpperChars : UpperChars[i] = c]
    ELSE c

\* str.lower()
Lower(s) == [i \in 1..Len(s) |-> LowerChar(s[i])]

\* sub in s
Contains(sub, s) ==
  \E i \in 0..(Len(s) - Len(sub)) : SubSeq(s, i + 1, i + Len(sub)) = sub

Whitespace == {" ", "\t", "\n"}

\* str.strip(): drop the leading and the trailing whitespace characters
Strip(s) ==
  LET keep == {i \in 1..Len(s) : s[i] \notin Whitespace}
  IN  IF keep = {} THEN <<>>
      ELSE LET lo == CHOOSE i \in keep : \A j \in keep : i <= j
               hi == CHOOSE i \in keep : \A j \in keep : j <= i
           IN  SubSeq(s, lo, hi)

\* ------------------------------------------------------------ cell values
\* A cell or a column label: text, a number, a date/time, or missing (NaN).
Text(s) == [k |-> "str", s |-> s, n |-> 0]
Num(n) == [k |-> "num", s |-> <<>>, n |-> n]
Date(n) == [k |-> "date", s |-> <<>>, n |-> n]
NaN == [k |-> "nan", s |-> <<>>, n |-> 0]

\* mutant: x.lstrip(), the trailing whitespace stays
StripCell_LeftOnly(x) ==
  IF x.k = "str"
    THEN LET keep == {i \in 1..Len(x.s) : x.s[i] \notin Whitespace}
         IN  IF keep = {} THEN Text(<<>>)
             ELSE Text(SubSeq(x.s, CHOOSE i \in keep : \A j \in keep : i <= j, Len(x.s)))
    ELSE x

\* lambda x: x.strip() if isinstance(x, str) else x
StripCell(x) == IF x.k = "str" THEN Text(Strip(x.s)) ELSE x

\* ------------------------------------------------------------- DataFrames
\* [columns: sequence of labels, data: sequence of rows aligned with columns]
DataFrame(columns, data) == [columns |-> columns, data |-> data]

\* df.applymap(f) with f = StripCell: every data cell, not the labels
applymap_strip(df) ==
  DataFrame(df.columns,
            [r \in 1..Len(df.data) |->
               [c \in 1..Len(df.columns) |-> StripCell(df.data[r][c])]])

ColumnIndex(df, label) == CHOOSE c \in 1..Len(df.columns) : df.columns[c] = label

\* df[label] = value: overwrite the column in place, or add it as the last one
SetColumn(df, label, value) ==
  IF label \in Range(df.columns)
    THEN DataFrame(df.columns,
                   [r \in 1..Len(df.data) |->
                      [c \in 1..Len(df.columns) |->
                         IF df.columns[c] = label THEN value ELSE df.data[r][c]]])
    ELSE DataFrame(Append(df.columns, label),
                   [r \in 1..Len(df.data) |-> Append(df.data[r], value)])

\* df[labels].copy(): the named columns, in the order of labels
Project(df, labels) ==
  DataFrame(labels,
            [r \in 1..Len(df.data) |->
               [c \in 1..Len(labels) |-> df.data[r][ColumnIndex(df, labels[c])]]])

\* the labels of later frames that earlier ones lack, in order of appearance
RECURSIVE UnionColumns(_)
UnionColumns(dfs) ==
  IF dfs = <<>> THEN <<>>
  ELSE LET head == UnionColumns(SubSeq(dfs, 1, Len(dfs) - 1))
           last == dfs[Len(dfs)].columns
       IN  head \o SelectSeq(last, LAMBDA l : l \notin Range(head))

Reindex(df, labels) ==
  [r \in 1..Len(df.data) |->
     [c \in 1..Len(labels) |->
        IF labels[c] \in Range(df.columns)
          THEN df.data[r][ColumnIndex(df, labels[c])]
          ELSE NaN]]

RECURSIVE StackRows(_, _)
StackRows(dfs, labels) ==
  IF dfs = <<>> THEN <<>>
  ELSE StackRows(SubSeq(dfs, 1, Len(dfs) - 1), labels)
         \o Reindex(dfs[Len(dfs)], labels)

\* mutant: the summary is the first frame alone
concat_FirstOnly(dfs) == dfs[1]

\* pd.concat(dfs, ignore_index=True): union of the columns, rows stacked
concat(dfs) == DataFrame(UnionColumns(dfs), StackRows(dfs, UnionColumns(dfs)))

\* ---------------------------------------------------------- ExcelWriter
\* A written worksheet.  width is worksheet.column_dimensions: the widths set
\* explicitly, one per column, or empty when none was set.
Worksheet(title, df) ==
  [title |-> title, header |-> df.columns, rows |-> df.data, width |-> <<>>]

\* df.to_excel(writer, sheet_name=..., index=False): one more sheet in the book
to_excel(book, df, sheet_name) == Append(book, Worksheet(sheet_name, df))

\* Leaving the with-block saves the book; the openpyxl engine starts from a
\* book with no sheet and refuses to save one ("At least one sheet must be
\* visible").
CanSave(book) == book # <<>>

RECURSIVE WriteSheets(_, _)
\* for sheet_name, df in sheets_data.items(): df.to_excel(writer, sheet_name)
WriteSheets(book, sheets_data) ==
  IF sheets_data = <<>> THEN book
  ELSE WriteSheets(to_excel(book, sheets_data[1].df, sheets_data[1].name),
                   SubSeq(sheets_data, 2, Len(sheets_data)))

\* ------------------------------------------------------ formatting helper
RECURSIVE Digits(_)
Digits(n) == IF n < 10 THEN 1 ELSE 1 + Digits(n \div 10)

\* len(str(x))
StrLen(x) ==
  CASE x.k = "str" -> Len(x.s)
    [] x.k = "num" -> Digits(x.n)
    [] x.k = "nan" -> Len(<<"n", "a", "n">>)
    [] OTHER -> Len(<<"Y", "Y", "Y", "Y", "-", "M", "M", "-", "D", "D", " ",
                      "H", "H", ":", "M", "M", ":", "S", "S">>)

\* cell_length of a date/time cell
DateWidth == Len(<<"Y", "Y", "Y", "Y", "-", "M", "M", "-", "D", "D">>)

Max(a, b) == IF a >= b THEN a ELSE b

RECURSIVE ColumnMaxLength(_, _, _)
\* the inner loop of format_worksheet_dates over the rows 1..r of column c
ColumnMaxLength(df, c, r) ==
  IF r = 0 THEN StrLen(df.columns[c]) + 2
  ELSE LET cell_value == df.data[r][c]
           cell_length == IF cell_value.k = "date" THEN DateWidth
                          ELSE StrLen(cell_value)
       IN  Max(ColumnMaxLength(df, c, r - 1), cell_length + 2)

\* format_worksheet_dates(worksheet, df): the widths it sets.  No statement
\* of the script calls it.
format_worksheet_dates(worksheet, df) ==
  [worksheet EXCEPT !.width =
     [c \in 1..Len(df.columns) |-> ColumnMaxLength(df, c, Len(df.data))]]

\* ------------------------------------------------------------------ inputs
kutkaiLower == <<"k", "u", "t", "k", "a", "i">>
hName == <<" ", "N", "a", "m", "e", " ">>
hReg == <<"R", "e", "g", "i", "s", "t", "r", "a", "t", "i", "o", "n", " ", "N", "o">>
hVisit == <<"V", "I", "S", "I", "T", " ", "d", "a", "t", "e">>
hAge == <<"A", "g", "e">>
hPlain == <<"N", "a", "m", "e">>
vAye == <<" ", "A", "y", "e", " ">>
vBo == <<"B", "o", "\t">>
vX == <<" ", "x", " ">>

\* Labels and cells with surrounding whitespace, columns that match
\* "registration" and "visit" in other cases, a date and a missing value.
TableA ==
  DataFrame(<<Text(hName), Text(hReg), Text(hVisit)>>,
            << <<Text(vAye), Num(12), Date(20240131)>>,
               <<Text(vBo), NaN, Date(20240201)>> >>)

\* No matching column; a TOWNSHIP column of its own.
TableB ==
  DataFrame(<<Text(TOWNSHIP), Text(hAge)>>, << <<Text(vX), Num(7)>> >>)

\* A numeric column label; a header row and no data row.
TableC ==
  DataFrame(<<Text(hPlain), Num(2021)>>, <<>>)

Tables == {TableA, TableB, TableC}

SheetNamePool ==
  {column_style_sheets[1], column_style_sheets[3],
   row_style_sheets[1], row_style_sheets[2], SUMMARY, kutkaiLower}

Sheets == [name : SheetNamePool, table : Tables]

\* The sheets of a workbook: at least one, names distinct, in workbook order.
Workbooks ==
  {w \in UNION {[1..n -> Sheets] : n \in 1..MaxSheets} :
     \A i, j \in DOMAIN w : i # j => w[i].name # w[j].name}

CorruptFile == [name |-> "tb.xlsx", parseable |-> FALSE, sheets |-> <<>>]

Files ==
  {CorruptFile} \cup
  {[name |-> "tb.xlsx", parseable |-> TRUE, sheets |-> w] : w \in Workbooks}

NoFile == [name |-> "", parseable |-> FALSE, sheets |-> <<>>]

\* The files a later rerun may find in the uploader instead of the same one.
ReuploadFiles ==
  {CorruptFile,
   [name |-> "tb.xlsx", parseable |-> TRUE,
    sheets |-> << [name |-> row_style_sheets[1], table |-> TableA] >>]}

\* ---------------------------------------------------------------- messages
Msg(tag, sheet, err, c, r) ==
  [tag |-> tag, sheet |-> sheet, err |-> err, c |-> c, r |-> r]

MsgUploaded == Msg("uploaded", <<>>, "", 0, 0)
MsgDetected(c, r) == Msg("detected", <<>>, "", c, r)
MsgRowSheet(s) == Msg("row_sheet", s, "", 0, 0)
MsgRowDone == Msg("row_done", <<>>, "", 0, 0)
MsgColumnSheet(s) == Msg("column_sheet", s, "", 0, 0)
MsgColumnDone == Msg("column_done", <<>>, "", 0, 0)
MsgSuccess == Msg("success", <<>>, "", 0, 0)
MsgError(e) == Msg("error", <<>>, e, 0, 0)

\* ------------------------------------------------------------------- state
VARIABLES
  log_text,                \* st.session_state.log_text, a sequence of lines
  uploaded_file,           \* the file in the uploader
  pc,                      \* where the running pass stands
  passes,                  \* passes started in this session
  existing_column_sheets,
  existing_row_sheets,
  idx,                     \* position of the running for-loop
  row_summary_data,
  row_sheets_data,         \* insertion-ordered dict: sequence of [name, df]
  summary_data_list,
  column_sheets_data,
  combined_summary,
  row_output_file,         \* the saved book in each BytesIO, <<>> when unsaved
  column_output_file,
  final_output_file,
  buttons                  \* the download buttons on the page, in order

vars ==
  <<log_text, uploaded_file, pc, passes, existing_column_sheets,
    existing_row_sheets, idx, row_summary_data, row_sheets_data,
    summary_data_list, column_sheets_data, combined_summary, row_output_file,
    column_output_file, final_output_file, buttons>>

locals ==
  <<existing_column_sheets, existing_row_sheets, idx, row_summary_data,
    row_sheets_data, summary_data_list, column_sheets_data, combined_summary,
    row_output_file, column_output_file, final_output_file>>

NoFrame == DataFrame(<<>>, <<>>)

Init ==
  /\ log_text = <<>>
  /\ uploaded_file = NoFile
  /\ pc = "idle"
  /\ passes = 0
  /\ existing_column_sheets = <<>>
  /\ existing_row_sheets = <<>>
  /\ idx = 0
  /\ row_summary_data = <<>>
  /\ row_sheets_data = <<>>
  /\ summary_data_list = <<>>
  /\ column_sheets_data = <<>>
  /\ combined_summary = NoFrame
  /\ row_output_file = <<>>
  /\ column_output_file = <<>>
  /\ final_output_file = <<>>
  /\ buttons = <<>>

\* mutant: log_text = message, the earlier lines are lost
log_Overwrites(text, message) == <<message>>

\* log(message): append the line to the session's log text
log(text, message) == Append(text, message)

\* st.download_button(label, data=..., file_name=...)
download_button(page, data, file_name) ==
  Append(page, [file_name |-> file_name, data |-> data])

\* The script starts from the top with file f in the uploader: the page is
\* rebuilt, the locals do not exist yet, the log is kept.
StartPass(f) ==
  /\ uploaded_file' = f
  /\ log_text' = log(log_text, MsgUploaded)
  /\ passes' = passes + 1
  /\ pc' = "load"
  /\ buttons' = <<>>
  /\ existing_column_sheets' = <<>>
  /\ existing_row_sheets' = <<>>
  /\ idx' = 0
  /\ row_summary_data' = <<>>
  /\ row_sheets_data' = <<>>
  /\ summary_data_list' = <<>>
  /\ column_sheets_data' = <<>>
  /\ combined_summary' = NoFrame
  /\ row_output_file' = <<>>
  /\ column_output_file' = <<>>
  /\ final_output_file' = <<>>

\* The first upload of the session.
Upload ==
  /\ pc = "idle"
  /\ passes < MaxPasses
  /\ \E f \in Files : StartPass(f)

\* A rerun after a finished pass: the same file (any widget interaction), or
\* another file put in the uploader.
Rerun ==
  /\ pc = "done"
  /\ passes < MaxPasses
  /\ \E f \in {uploaded_file} \cup ReuploadFiles : StartPass(f)

\* mutant: the handler logs the error line twice
Except_LogsTwice(e) ==
  /\ log_text' = log(log(log_text, MsgError(e)), MsgError(e))
  /\ pc' = "done"

\* except Exception as e: log(f"Error: {e}"); the pass is over
Except(e) ==
  /\ log_text' = log(log_text, MsgError(e))
  /\ pc' = "done"

\* mutant: every sheet of the workbook, the static list is not consulted
ExistingSheets_Unfiltered(static, all_sheet_names) == all_sheet_names

\* mutant: [s for s in all_sheet_names if s in static], the workbook's order
ExistingSheets_WorkbookOrder(static, all_sheet_names) ==
  SelectSeq(all_sheet_names, LAMBDA s : s \in Range(static))

\* [s for s in static if s in all_sheet_names]
ExistingSheets(static, all_sheet_names) ==
  SelectSeq(static, LAMBDA s : s \in Range(all_sheet_names))

\* workbook.sheetnames
sheetnames(f) == [i \in 1..Len(f.sheets) |-> f.sheets[i].name]

\* pd.read_excel(uploaded_file, sheet_name=sheet_name)
read_excel(f, sheet_name) ==
  f.sheets[CHOOSE i \in 1..Len(f.sheets) : f.sheets[i].name = sheet_name].table

\* lines 61-74: load the workbook, classify its sheets
LoadWorkbook ==
  /\ pc = "load"
  /\ IF ~uploaded_file.parseable
       THEN /\ Except("BadZipFile")
            /\ UNCHANGED <<locals, buttons>>
       ELSE /\ existing_column_sheets' =
                 ExistingSheets(column_style_sheets, sheetnames(uploaded_file))
            /\ existing_row_sheets' =
                 ExistingSheets(row_style_sheets, sheetnames(uploaded_file))
            /\ log_text' = log(log_text,
                 MsgDetected(Len(existing_column_sheets'), Len(existing_row_sheets')))
            /\ pc' = "row_loop"
            /\ idx' = 1
            /\ UNCHANGED <<row_summary_data, row_sheets_data, summary_data_list,
                           column_sheets_data, combined_summary, row_output_file,
                           column_output_file, final_output_file, buttons>>
  /\ UNCHANGED <<uploaded_file, passes>>

\* lines 82-88: one iteration of the row-style loop
ProcessRowSheet ==
  /\ pc = "row_loop"
  /\ idx <= Len(existing_row_sheets)
  /\ LET sheet_name == existing_row_sheets[idx]
         df == SetColumn(applymap_strip(read_excel(uploaded_file, sheet_name)),
                         Text(TOWNSHIP), Text(sheet_name))
     IN  /\ row_sheets_data' = Append(row_sheets_data, [name |-> sheet_name, df |-> df])
         /\ row_summary_data' = Append(row_summary_data, df)
         /\ log_text' = log(log_text, MsgRowSheet(sheet_name))
  /\ idx' = idx + 1
  /\ UNCHANGED <<uploaded_file, pc, passes, existing_column_sheets,
                 existing_row_sheets, summary_data_list, column_sheets_data,
                 combined_summary, row_output_file, column_output_file,
                 final_output_file, buttons>>

\* lines 90-100: the row-style workbook, when a row-style sheet was read
WriteRowOutput ==
  /\ pc = "row_loop"
  /\ idx > Len(existing_row_sheets)
  /\ IF row_summary_data # <<>>
       THEN LET combined_row_summary == concat(row_summary_data)
                book == WriteSheets(to_excel(<<>>, combined_row_summary, SUMMARY),
                                    row_sheets_data)
            IN  /\ row_output_file' = book
                /\ buttons' = download_button(buttons, book, ROW_FILE_NAME)
                /\ log_text' = log(log_text, MsgRowDone)
       ELSE UNCHANGED <<row_output_file, buttons, log_text>>
  /\ pc' = "column_loop"
  /\ idx' = 1
  /\ UNCHANGED <<uploaded_file, passes, existing_column_sheets,
                 existing_row_sheets, row_summary_data, row_sheets_data,
                 summary_data_list, column_sheets_data, combined_summary,
                 column_output_file, final_output_file>>

\* c.lower() exists for a text label only
IsStr(c) == c.k = "str"

\* mutant: the label is compared without lower()
Needed_CaseSensitive(c) == Contains(REGISTRATION, c.s) \/ Contains(VISIT, c.s)

\* 'registration' in c.lower() or 'visit' in c.lower()
Needed(c) == Contains(REGISTRATION, Lower(c.s)) \/ Contains(VISIT, Lower(c.s))

\* [c for c in df.columns if ...]
cols_needed(df) == SelectSeq(df.columns, Needed)

\* lines 115-117: the summary projection of one column-style sheet
summary_df(df, sheet_name) ==
  SetColumn(SetColumn(Project(df, cols_needed(df)),
                      Text(SOURCE_SHEET), Text(sheet_name)),
            Text(TOWNSHIP), Text(sheet_name))

\* lines 108-119: one iteration of the column-style loop
ProcessColumnSheet ==
  /\ pc = "column_loop"
  /\ idx <= Len(existing_column_sheets)
  /\ LET sheet_name == existing_column_sheets[idx]
         df == applymap_strip(read_excel(uploaded_file, sheet_name))
     IN  /\ column_sheets_data' =
              Append(column_sheets_data, [name |-> sheet_name, df |-> df])
         /\ IF \E c \in Range(df.columns) : ~IsStr(c)
              THEN /\ Except("AttributeError")
                   /\ UNCHANGED <<summary_data_list, idx>>
              ELSE /\ summary_data_list' =
                        Append(summary_data_list, summary_df(df, sheet_name))
                   /\ log_text' = log(log_text, MsgColumnSheet(sheet_name))
                   /\ idx' = idx + 1
                   /\ pc' = pc
  /\ UNCHANGED <<uploaded_file, passes, existing_column_sheets,
                 existing_row_sheets, row_summary_data, row_sheets_data,
                 combined_summary, row_output_file, column_output_file,
                 final_output_file, buttons>>

\* lines 121-131: the column-style workbook, when a projection was built
WriteColumnOutput ==
  /\ pc = "column_loop"
  /\ idx > Len(existing_column_sheets)
  /\ IF summary_data_list # <<>>
       THEN LET book == WriteSheets(
                          to_excel(<<>>, concat(summary_data_list), SUMMARY),
                          column_sheets_data)
            IN  /\ combined_summary' = concat(summary_data_list)
                /\ column_output_file' = book
                /\ buttons' = download_button(buttons, book, COLUMN_FILE_NAME)
                /\ log_text' = log(log_text, MsgColumnDone)
       ELSE UNCHANGED <<combined_summary, column_output_file, buttons, log_text>>
  /\ pc' = "final"
  /\ UNCHANGED <<uploaded_file, passes, existing_column_sheets,
                 existing_row_sheets, idx, row_summary_data, row_sheets_data,
                 summary_data_list, column_sheets_data, row_output_file,
                 final_output_file>>

\* lines 137-142: what the final with-block writes before it is left
FinalBook ==
  WriteSheets(
    WriteSheets(IF summary_data_list # <<>>
                  THEN to_excel(<<>>, combined_summary, SUMMARY)
                  ELSE <<>>,
                column_sheets_data),
    row_sheets_data)

\* mutant: the download is offered inside the with-block, before the save
WriteFinalOutput_OffersBeforeSave ==
  /\ pc = "final"
  /\ buttons' = download_button(buttons, FinalBook, FINAL_FILE_NAME)
  /\ IF CanSave(FinalBook)
       THEN /\ final_output_file' = FinalBook
            /\ log_text' = log(log_text, MsgSuccess)
            /\ pc' = "done"
       ELSE /\ Except("IndexError")
            /\ UNCHANGED final_output_file
  /\ UNCHANGED <<uploaded_file, passes, existing_column_sheets,
                 existing_row_sheets, idx, row_summary_data, row_sheets_data,
                 summary_data_list, column_sheets_data, combined_summary,
                 row_output_file, column_output_file>>

\* lines 136-147: the final workbook, its download and the success line
WriteFinalOutput ==
  /\ pc = "final"
  /\ IF CanSave(FinalBook)
       THEN /\ final_output_file' = FinalBook
            /\ buttons' = download_button(buttons, FinalBook, FINAL_FILE_NAME)
            /\ log_text' = log(log_text, MsgSuccess)
            /\ pc' = "done"
       ELSE /\ Except("IndexError")
            /\ UNCHANGED <<final_output_file, buttons>>
  /\ UNCHANGED <<uploaded_file, passes, existing_column_sheets,
                 existing_row_sheets, idx, row_summary_data, row_sheets_data,
                 summary_data_list, column_sheets_data, combined_summary,
                 row_output_file, column_output_file>>

Next ==
  \/ Upload
  \/ Rerun
  \/ LoadWorkbook
  \/ ProcessRowSheet
  \/ WriteRowOutput
  \/ ProcessColumnSheet
  \/ WriteColumnOutput
  \/ WriteFinalOutput

Spec == Init /\ [][Next]_vars

\* ------------------------------------------------------ reading the state
Parsed == uploaded_file.parseable

\* the sheet names of the uploaded workbook
AllNames == Range(sheetnames(uploaded_file))

RowNames == {n \in AllNames : n \in Range(row_style_sheets)}
ColumnNames == {n \in AllNames : n \in Range(column_style_sheets)}
UnlistedNames == AllNames \ (RowNames \cup ColumnNames)

Offered(file_name) == \E i \in DOMAIN buttons : buttons[i].file_name = file_name

ButtonData(file_name) ==
  buttons[CHOOSE i \in DOMAIN buttons : buttons[i].file_name = file_name].data

Titles(book) == [i \in 1..Len(book) |-> book[i].title]

\* every worksheet of every offered download
OfferedSheets ==
  UNION {Range(buttons[i].data) : i \in DOMAIN buttons}

\* the lines of the running (or last finished) pass
PassStart ==
  CHOOSE i \in DOMAIN log_text :
    /\ log_text[i].tag = "uploaded"
    /\ \A j \in DOMAIN log_text : j > i => log_text[j].tag # "uploaded"

PassLines == SubSeq(log_text, PassStart, Len(log_text))

LastLine == log_text[Len(log_text)]

Terminal(l) == l.tag \in {"success", "error"}

Count(s, P(_)) == Cardinality({i \in DOMAIN s : P(s[i])})

IsError(l) == l.tag = "error"

RECURSIVE SumRows(_, _)
\* the data rows of the workbook's sheets whose name is in names
SumRows(sheets, names) ==
  IF sheets = <<>> THEN 0
  ELSE (IF sheets[1].name \in names THEN Len(sheets[1].table.data) ELSE 0)
         + SumRows(SubSeq(sheets, 2, Len(sheets)), names)

IsPrefix(s, t) == Len(s) <= Len(t) /\ SubSeq(t, 1, Len(s)) = s

NoEdgeWhitespace(s) ==
  s = <<>> \/ (s[1] \notin Whitespace /\ s[Len(s)] \notin Whitespace)

StaticIndex(static, name) == CHOOSE i \in DOMAIN static : static[i] = name

\* ------------------------------------------------------------------ claims

\* C1 (as claimed): when no sheet name of the workbook is in either static
\* list, a finished pass offers neither the row-style nor the column-style
\* download, offers the final workbook with zero sheets, and ends with the
\* success line.
C1_NoMatchFinalOffered ==
  (pc = "done" /\ Parsed /\ RowNames = {} /\ ColumnNames = {})
    => /\ ~Offered(ROW_FILE_NAME)
       /\ ~Offered(COLUMN_FILE_NAME)
       /\ Offered(FINAL_FILE_NAME)
       /\ ButtonData(FINAL_FILE_NAME) = <<>>
       /\ LastLine.tag = "success"

\* C3: when load_workbook raises, the pass logs exactly one error line and
\* offers no download at all.
C3_CorruptFile ==
  (pc = "done" /\ ~Parsed)
    => /\ buttons = <<>>
       /\ Count(PassLines, IsError) = 1
       /\ LastLine.tag = "error"
       /\ \A i \in DOMAIN PassLines : PassLines[i].tag # "success"

C3_Witness ==
  pc = "done" /\ ~Parsed /\ passes = 2 /\ Len(log_text) > Len(PassLines)

\* C4: with k >= 1 sheet names in the row-style list, the row-style workbook
\* holds k+1 sheets, Summary and the k sources, and Summary has as many data
\* rows as the k source sheets together.
C4_RowOutputShape ==
  (Parsed /\ pc \in {"column_loop", "final", "done"} /\ RowNames # {})
    => /\ Offered(ROW_FILE_NAME)
       /\ LET book == ButtonData(ROW_FILE_NAME)
          IN  /\ Len(book) = Cardinality(RowNames) + 1
              /\ book[1].title = SUMMARY
              /\ {book[i].title : i \in 2..Len(book)} = RowNames
              /\ Len(book[1].rows) = SumRows(uploaded_file.sheets, RowNames)

C4_Witness ==
  /\ Offered(ROW_FILE_NAME)
  /\ Cardinality(RowNames) = 2
  /\ Len(ButtonData(ROW_FILE_NAME)[1].rows) = 3

\* the text labels and the text data cells of a written worksheet
HeaderTexts(ws) == {ws.header[c].s : c \in {c \in DOMAIN ws.header : ws.header[c].k = "str"}}

\* a text cell of a classified source sheet carries whitespace at an end
PaddedSourceCell ==
  \E i \in DOMAIN uploaded_file.sheets :
    /\ uploaded_file.sheets[i].name \in RowNames \cup ColumnNames
    /\ \E r \in DOMAIN uploaded_file.sheets[i].table.data :
         \E c \in DOMAIN uploaded_file.sheets[i].table.columns :
           /\ uploaded_file.sheets[i].table.data[r][c].k = "str"
           /\ ~NoEdgeWhitespace(uploaded_file.sheets[i].table.data[r][c].s)

\* C5 (as claimed): in every offered workbook every text cell of every sheet,
\* the header cells included, has no leading and no trailing whitespace.
C5_AllTextStripped ==
  \A ws \in OfferedSheets :
    /\ \A s \in HeaderTexts(ws) : NoEdgeWhitespace(s)
    /\ \A r \in DOMAIN ws.rows : \A c \in DOMAIN ws.header :
         ws.rows[r][c].k = "str" => NoEdgeWhitespace(ws.rows[r][c].s)

\* C5 (amended): in every offered workbook every text cell below the header
\* row has no leading and no trailing whitespace; the header cells keep the
\* column names of the source as they are.
C5_DataCellsStripped ==
  \A ws \in OfferedSheets :
    \A r \in DOMAIN ws.rows : \A c \in DOMAIN ws.header :
      ws.rows[r][c].k = "str" => NoEdgeWhitespace(ws.rows[r][c].s)

C5_Witness ==
  /\ Offered(FINAL_FILE_NAME)
  /\ PaddedSourceCell
  /\ \E ws \in Range(ButtonData(FINAL_FILE_NAME)) :
       \E r \in DOMAIN ws.rows : \E c \in DOMAIN ws.header :
         ws.rows[r][c].k = "str" /\ ws.title # SUMMARY

\* C6 (as claimed): a sheet whose name is in neither static list never
\* appears in an offered workbook: no worksheet carries its name.
C6_UnlistedNeverAppears ==
  \A n \in UnlistedNames : \A ws \in OfferedSheets : ws.title # n

\* C6 (amended): every worksheet of an offered workbook is either the derived
\* sheet named Summary or carries the name of a workbook sheet that is in one
\* of the static lists, so a sheet in neither list appears under no name
\* other than Summary.
C6_OnlyListedOrSummary ==
  /\ \A ws \in OfferedSheets :
       ws.title = SUMMARY \/ ws.title \in RowNames \cup ColumnNames
  /\ \A n \in UnlistedNames \ {SUMMARY} : \A ws \in OfferedSheets : ws.title # n

C6_Witness ==
  /\ Offered(FINAL_FILE_NAME)
  /\ kutkaiLower \in UnlistedNames
  /\ ColumnNames # {}

\* C7: the final workbook lists Summary first when a column-style sheet
\* matched, then the matched column-style sheets in the order of the static
\* list, then the matched row-style sheets in the order of the static list;
\* every row-style sheet has a TOWNSHIP column that holds the sheet's name in
\* every row; no name occurs twice.
C7_FinalOrder ==
  Offered(FINAL_FILE_NAME) =>
    LET book == ButtonData(FINAL_FILE_NAME)
        title == Titles(book)
    IN  /\ \A i, j \in DOMAIN title : i # j => title[i] # title[j]
        /\ Range(title) \ {SUMMARY} = RowNames \cup ColumnNames
        /\ (SUMMARY \in Range(title)) <=> (ColumnNames # {})
        /\ (SUMMARY \in Range(title)) => title[1] = SUMMARY
        /\ \A i, j \in DOMAIN title :
             (i < j /\ title[i] # SUMMARY /\ title[j] # SUMMARY) =>
               \/ title[i] \in ColumnNames /\ title[j] \in RowNames
               \/ /\ title[i] \in ColumnNames /\ title[j] \in ColumnNames
                  /\ StaticIndex(column_style_sheets, title[i])
                       < StaticIndex(column_style_sheets, title[j])
               \/ /\ title[i] \in RowNames /\ title[j] \in RowNames
                  /\ StaticIndex(row_style_sheets, title[i])
                       < StaticIndex(row_style_sheets, title[j])
        /\ \A i \in DOMAIN book :
             book[i].title \in RowNames =>
               /\ Text(TOWNSHIP) \in Range(book[i].header)
               /\ \A r \in DOMAIN book[i].rows : \A c \in DOMAIN book[i].header :
                    book[i].header[c] = Text(TOWNSHIP)
                      => book[i].rows[r][c] = Text(book[i].title)

\* the workbook lists a row-style sheet first and then two column-style
\* sheets against the order of the static list
C7_Witness ==
  /\ Offered(FINAL_FILE_NAME)
  /\ Len(uploaded_file.sheets) = 3
  /\ uploaded_file.sheets[1].name = row_style_sheets[1]
  /\ uploaded_file.sheets[2].name = column_style_sheets[3]
  /\ uploaded_file.sheets[3].name = column_style_sheets[1]
  /\ Len(ButtonData(FINAL_FILE_NAME)) = 4
  /\ Len(ButtonData(FINAL_FILE_NAME)[4].rows) > 0

\* the label contains "registration" or "visit", whatever its case
MatchesKeyword(label) ==
  \E kw \in {REGISTRATION, VISIT} : Contains(kw, Lower(label.s))

SourceTable(name) ==
  uploaded_file.sheets[
    CHOOSE i \in DOMAIN uploaded_file.sheets : uploaded_file.sheets[i].name = name
  ].table

Starts == {i \in DOMAIN log_text : log_text[i].tag = "uploaded"}

\* the last line of the pass that starts at line i
PassEnd(i) ==
  IF \E j \in Starts : j > i
    THEN (CHOOSE j \in Starts : j > i /\ \A k \in Starts : k > i => j <= k) - 1
    ELSE Len(log_text)

PassFinished(i) == (\E j \in Starts : j > i) \/ pc = "done"

\* every pass in the log starts with the file-accepted line; a finished pass
\* has one terminal line, its last line; a running pass has none
PassesWellFormed ==
  /\ log_text # <<>> => 1 \in Starts
  /\ Cardinality(Starts) = passes
  /\ \A i \in Starts :
       LET terminals == {j \in i..PassEnd(i) : Terminal(log_text[j])}
       IN  IF PassFinished(i) THEN terminals = {PassEnd(i)} ELSE terminals = {}

\* C9: the log is append-only over the passes of a session (each earlier
\* value is a prefix of each later one), and every pass appends the
\* file-accepted line first and exactly one terminal line last, the success
\* line or the error line.
C9_LogAppendOnly ==
  /\ [][IsPrefix(log_text, log_text')]_vars
  /\ []PassesWellFormed

C9_Witness ==
  /\ passes = 2
  /\ pc = "done"
  /\ \E i \in DOMAIN log_text : log_text[i].tag = "success"
  /\ \E i \in DOMAIN log_text : log_text[i].tag = "error"

\* a step that appends the error line
ErrorStep ==
  /\ Len(log_text') = Len(log_text) + 1
  /\ log_text'[Len(log_text')].tag = "error"

\* an offered download holds the saved workbook of its finished stage
OffersComplete ==
  /\ Offered(ROW_FILE_NAME) =>
       /\ Titles(ButtonData(ROW_FILE_NAME)) = <<SUMMARY>> \o existing_row_sheets
       /\ Range(existing_row_sheets) = RowNames
       /\ \E i \in DOMAIN PassLines : PassLines[i].tag = "row_done"
  /\ Offered(COLUMN_FILE_NAME) =>
       /\ Titles(ButtonData(COLUMN_FILE_NAME)) = <<SUMMARY>> \o existing_column_sheets
       /\ Range(existing_column_sheets) = ColumnNames
       /\ \E i \in DOMAIN PassLines : PassLines[i].tag = "column_done"
  /\ Offered(FINAL_FILE_NAME) =>
       /\ Range(Titles(ButtonData(FINAL_FILE_NAME))) \ {SUMMARY}
            = RowNames \cup ColumnNames
       /\ ButtonData(FINAL_FILE_NAME) # <<>>
       /\ LastLine.tag = "success"

\* after the error line the pass logs nothing and offers nothing of the
\* stage that failed or of a later one
AbortedPass ==
  (pc = "done" /\ \E i \in DOMAIN PassLines : PassLines[i].tag = "error") =>
    /\ LastLine.tag = "error"
    /\ Count(PassLines, Terminal) = 1
    /\ ~Offered(FINAL_FILE_NAME)
    /\ LastLine.err = "AttributeError" => ~Offered(COLUMN_FILE_NAME)
    /\ LastLine.err = "BadZipFile" => buttons = <<>>

\* C2: an exception ends the pass: the downloads offered before it stay
\* offered and no other is added, an offered download always holds a fully
\* written workbook, and nothing is logged after the error line.
C2_AbortKeepsOffers ==
  /\ [][ErrorStep => (buttons' = buttons /\ pc' = "done")]_vars
  /\ [](passes > 0 => (OffersComplete /\ AbortedPass))

\* the row-style download was offered, then the column-style stage failed
C2_Witness ==
  /\ pc = "done"
  /\ LastLine.err = "AttributeError"
  /\ Offered(ROW_FILE_NAME)
  /\ Len(column_sheets_data) = 2

\* the widest rendered cell of column c of a written worksheet
RECURSIVE WidestCell(_, _, _)
WidestCell(ws, c, r) ==
  IF r = 0 THEN 0
  ELSE Max(WidestCell(ws, c, r - 1),
           IF ws.rows[r][c].k = "date" THEN DateWidth ELSE StrLen(ws.rows[r][c]))

\* C10 (as claimed): every column of every exported table is auto-sized to
\* the larger of its header length + 2 and its widest rendered cell, a
\* date/time cell counting 10.
C10_ColumnsAutoSized ==
  \A ws \in OfferedSheets :
    /\ Len(ws.width) = Len(ws.header)
    /\ \A c \in DOMAIN ws.width :
         ws.width[c] = Max(StrLen(ws.header[c]) + 2, WidestCell(ws, c, Len(ws.rows)))

====
